---- MODULE Spec2Model ----
(***************************************************************************)
(* Model of the volumetric chroma-key showcase (src/src/app.js).           *)
(*                                                                         *)
(* The page is a single-threaded event loop: every handler below runs to   *)
(* completion, and an async handler is split at each await into the part   *)
(* before it and the continuation that runs when the promise settles.      *)
(*                                                                         *)
(* Numbers: slider values and uniforms are in thousandths (0.3 = 300),     *)
(* colour channels in tenths (1.0 = 10).                                   *)
(***************************************************************************)
EXTENDS Integers, Sequences, FiniteSets, TLC

\* ---------------------------------------------------------------- bounds
MaxAiRequests == 2      \* image requests issued in one run
MaxArStarts == 2        \* getUserMedia calls issued in one run
ColourSteps == 2        \* each colour channel takes ColourSteps + 1 values in [0, 1]

\* ------------------------------------------------------- program constants
AR_OFF_CLEAR_COLOR == 526351     \* 0x08080f

AI_SCENE_PROMPTS ==
  << "holographic dancer performing in neon lights dark stage",
     "floating crystal orb with swirling energy inside dark void",
     "ethereal ghost figure glowing translucent on dark background",
     "robot DJ with turntables neon cyberpunk stage dark background",
     "phoenix bird made of fire rising dark background",
     "astronaut floating in space with stars and nebula",
     "samurai warrior with glowing sword dark misty background",
     "dragon breathing colorful fire dark fantasy background" >>

\* What the user may have typed in the 'ai-prompt' box (after trim()).
PromptInputs == {"", "neon cat"}

\* Strings a range slider can hand to oninput (e.target.value).
SliderInputs == { <<"0", ".", "0", "5">>, <<"0", ".", "4">> }

VARIABLES
  chromaKeyEnabled,   \* let chromaKeyEnabled
  currentDemo,        \* let currentDemo (0-based, as in the code)
  DEMOS,              \* const DEMOS, 1-based here: DEMOS[currentDemo + 1]
  aiImageLoading,     \* let aiImageLoading
  aiPromptIndex,      \* let aiPromptIndex
  aiPending,          \* image loads in flight (suspended 'ai-generate' handlers)
  uniforms,           \* material.uniforms of the chroma-key ShaderMaterial
  meshMaterial,       \* videoMesh.material
  previewMap,         \* previewMesh.material.map
  sourceTexture,      \* let sourceTexture
  sourceCanvas,       \* what sourceCanvas holds (the routine that painted it last)
  needsUpdate,        \* texture -> needsUpdate flag
  gpu,                \* texture -> the pixels last uploaded for it
  rafPending,         \* a requestAnimationFrame(animate) callback is queued
  btnActive,          \* 'ar-camera' button dataset.active === 'true'
  arStream,           \* window._arStream (0 = null)
  liveStreams,        \* MediaStreams whose tracks have not been stopped
  arVideos,           \* <video id="ar-video"> elements in document order
  clearColor,         \* renderer clear colour and alpha
  gridVisible,        \* GridHelper.visible
  arPending,          \* suspended 'ar-camera' start handlers
  arStarts,           \* getUserMedia calls made so far
  toast,              \* text of the 'vol-toast' element
  lastOp,             \* the handler that ran last, and how it ended
  frag                \* the classifier's last evaluation (see ShaderSpec)

sourceVars == << chromaKeyEnabled, currentDemo, DEMOS, aiImageLoading, aiPromptIndex,
                 aiPending, uniforms, meshMaterial, previewMap, sourceTexture >>
frameVars == << sourceCanvas, needsUpdate, gpu, rafPending >>
cameraVars == << btnActive, arStream, liveStreams, arVideos, clearColor, gridVisible,
                 arPending, arStarts >>
vars == << sourceVars, frameVars, cameraVars, toast, lastOp, frag >>

\* ------------------------------------------------------------- textures
\* Texture 0 is the CanvasTexture over sourceCanvas made by init(); texture k
\* (k >= 1) is the aiTexture made for the k-th image request, over its own
\* aiCanvas, which holds that request's image and is never painted again.
Textures == 0 .. MaxAiRequests

NoPicture == [draw |-> "none", img |-> 0]

AiPicture(k) == [draw |-> "drawImage", img |-> k]

\* The pixels a routine of DEMOS paints on a canvas.
Painted(demo) == [draw |-> demo.draw, img |-> demo.img]

\* The canvas behind a texture, as it is now.
CanvasOf(t) == IF t = 0 THEN sourceCanvas ELSE AiPicture(t)

BuiltinDemos ==
  << [name |-> "Dancing Robot", draw |-> "drawRobot", img |-> 0],
     [name |-> "Spinning Logo", draw |-> "drawLogo", img |-> 0],
     [name |-> "Particle Storm", draw |-> "drawParticles", img |-> 0] >>

ShaderMaterial == [kind |-> "shader", map |-> 0]

MeshBasicMaterial(t) == [kind |-> "basic", map |-> t]

\* The texture the billboard samples when it is rendered.
BillboardTexture == IF meshMaterial.kind = "shader" THEN uniforms.tex ELSE meshMaterial.map

\* The pixels the billboard shows (before the classifier is applied to them).
Displayed == gpu[BillboardTexture]

\* ------------------------------------------------------------ parseFloat
DigitValue(c) ==
  CASE c = "0" -> 0 [] c = "1" -> 1 [] c = "2" -> 2 [] c = "3" -> 3 [] c = "4" -> 4
    [] c = "5" -> 5 [] c = "6" -> 6 [] c = "7" -> 7 [] c = "8" -> 8 [] c = "9" -> 9

RECURSIVE DigitsValue(_)
DigitsValue(s) ==
  IF s = << >> THEN 0
  ELSE 10 * DigitsValue(SubSeq(s, 1, Len(s) - 1)) + DigitValue(s[Len(s)])

RECURSIVE PadRight(_, _)
PadRight(s, n) == IF Len(s) >= n THEN SubSeq(s, 1, n) ELSE PadRight(Append(s, "0"), n)

\* parseFloat of a decimal string "i.f", in thousandths (digits past the third
\* are below the model's resolution).
ParseFloat(s) ==
  LET dots == {i \in 1 .. Len(s) : s[i] = "."}
      dot == IF dots = {} THEN Len(s) + 1 ELSE CHOOSE i \in dots : \A j \in dots : i <= j
      whole == SubSeq(s, 1, dot - 1)
      fraction == PadRight(SubSeq(s, dot + 1, Len(s)), 3)
  IN DigitsValue(whole) * 1000 + DigitsValue(fraction)

\* ------------------------------------------------------------------ init
InitialUniforms ==
  [tex |-> 0, keyColor |-> <<0, 10, 0>>, similarity |-> 300, smoothness |-> 100,
   spill |-> 150]

NoFragment == [px |-> <<0, 0, 0>>, key |-> <<0, 0, 0>>, similarity |-> 0,
               smoothness |-> 0, spill |-> 0, rgb |-> <<0, 0, 0>>, alpha |-> -1]

\* The state when init() returns: the scene is built and the first animate()
\* call (the last statement of init) has painted and rendered one frame. The
\* renderer is made with alpha: true and no clear colour is set: black, alpha 0.
AppInit ==
  /\ chromaKeyEnabled = TRUE
  /\ currentDemo = 0
  /\ DEMOS = BuiltinDemos
  /\ aiImageLoading = FALSE
  /\ aiPromptIndex = 0
  /\ aiPending = {}
  /\ uniforms = InitialUniforms
  /\ meshMaterial = ShaderMaterial
  /\ previewMap = 0
  /\ sourceTexture = 0
  /\ sourceCanvas = Painted(BuiltinDemos[1])
  /\ needsUpdate = [t \in Textures |-> FALSE]
  /\ gpu = [t \in Textures |-> IF t = 0 THEN Painted(BuiltinDemos[1]) ELSE NoPicture]
  /\ rafPending = TRUE
  /\ btnActive = FALSE
  /\ arStream = 0
  /\ liveStreams = {}
  /\ arVideos = << >>
  /\ clearColor = [color |-> 0, alpha |-> 0]
  /\ gridVisible = TRUE
  /\ arPending = {}
  /\ arStarts = 0
  /\ toast = ""
  /\ lastOp = "init"

Init == AppInit /\ frag = NoFragment

\* showToast(msg)
ShowToast(msg) == toast' = msg

\* -------------------------------------------------------- source handlers
\* 'toggle-chroma' onclick
ToggleChroma ==
  /\ chromaKeyEnabled' = ~chromaKeyEnabled
  /\ meshMaterial' = IF chromaKeyEnabled' THEN ShaderMaterial
                     ELSE MeshBasicMaterial(sourceTexture)
  /\ lastOp' = "toggle-chroma"
  /\ UNCHANGED << currentDemo, DEMOS, aiImageLoading, aiPromptIndex, aiPending, uniforms,
                  previewMap, sourceTexture, frameVars, cameraVars, toast, frag >>

\* A handler that steps to the next index without wrapping round.
NextDemoNoWrap ==
  /\ currentDemo' = currentDemo + 1
  /\ lastOp' = "next-demo"
  /\ UNCHANGED << chromaKeyEnabled, DEMOS, aiImageLoading, aiPromptIndex, aiPending,
                  uniforms, meshMaterial, previewMap, sourceTexture, frameVars,
                  cameraVars, toast, frag >>

\* 'next-demo' onclick
NextDemo ==
  /\ currentDemo' = (currentDemo + 1) % Len(DEMOS)
  /\ lastOp' = "next-demo"
  /\ UNCHANGED << chromaKeyEnabled, DEMOS, aiImageLoading, aiPromptIndex, aiPending,
                  uniforms, meshMaterial, previewMap, sourceTexture, frameVars,
                  cameraVars, toast, frag >>

\* A handler that writes only while the billboard carries the shader material.
SimilarityInputIfShader(value) ==
  /\ uniforms' = IF meshMaterial.kind = "shader"
                 THEN [uniforms EXCEPT !.similarity = ParseFloat(value)]
                 ELSE uniforms
  /\ lastOp' = "similarity"
  /\ UNCHANGED << chromaKeyEnabled, currentDemo, DEMOS, aiImageLoading, aiPromptIndex,
                  aiPending, meshMaterial, previewMap, sourceTexture, frameVars,
                  cameraVars, toast, frag >>

\* 'similarity' oninput
SimilarityInput(value) ==
  /\ uniforms' = [uniforms EXCEPT !.similarity = ParseFloat(value)]
  /\ lastOp' = "similarity"
  /\ UNCHANGED << chromaKeyEnabled, currentDemo, DEMOS, aiImageLoading, aiPromptIndex,
                  aiPending, meshMaterial, previewMap, sourceTexture, frameVars,
                  cameraVars, toast, frag >>

\* 'smoothness' oninput
SmoothnessInput(value) ==
  /\ uniforms' = [uniforms EXCEPT !.smoothness = ParseFloat(value)]
  /\ lastOp' = "smoothness"
  /\ UNCHANGED << chromaKeyEnabled, currentDemo, DEMOS, aiImageLoading, aiPromptIndex,
                  aiPending, meshMaterial, previewMap, sourceTexture, frameVars,
                  cameraVars, toast, frag >>

\* A guard that never turns a click away.
ClickNeverIgnored == FALSE

\* The guard of 'ai-generate' onclick: the click returns at once.
ClickIgnored == aiImageLoading

\* generateAIScene: the prompt the request is made for, and the index bump.
PresetPrompt(index) == AI_SCENE_PROMPTS[(index % Len(AI_SCENE_PROMPTS)) + 1]

\* 'ai-generate' onclick up to the await of the image load.
AiGenerateClick(input) ==
  /\ IF ClickIgnored
     THEN /\ lastOp' = "ai-generate ignored"
          /\ UNCHANGED << aiImageLoading, aiPromptIndex, aiPending >>
     ELSE /\ aiPromptIndex < MaxAiRequests
          /\ aiImageLoading' = TRUE
          /\ aiPromptIndex' = aiPromptIndex + 1
          /\ aiPending' = aiPending \cup {[id |-> aiPromptIndex + 1, customPrompt |-> input]}
          /\ lastOp' = "ai-generate"
  /\ UNCHANGED << chromaKeyEnabled, currentDemo, DEMOS, uniforms, meshMaterial, previewMap,
                  sourceTexture, frameVars, cameraVars, toast, frag >>

\* The entry pushed on DEMOS for a loaded image (the name is the prompt; its
\* 'AI: ' prefix and the cut to 25 characters are display only).
AiDemo(req) ==
  [name |-> IF req.customPrompt # "" THEN req.customPrompt
            ELSE PresetPrompt(aiPromptIndex - 1),
   draw |-> "drawImage", img |-> req.id]

\* A handler that leaves the flag as it is when it ends.
AiFinallyMissing == aiImageLoading' = aiImageLoading

\* The finally block of 'ai-generate' onclick.
AiFinally == aiImageLoading' = FALSE

\* 'ai-generate' onclick after the await: the image is loaded and installed.
AiLoadResolved(req) ==
  /\ req \in aiPending
  /\ aiPending' = aiPending \ {req}
  /\ uniforms' = [uniforms EXCEPT !.tex = req.id]
  /\ needsUpdate' = [needsUpdate EXCEPT ![req.id] = TRUE]
  /\ previewMap' = req.id
  /\ DEMOS' = Append(DEMOS, AiDemo(req))
  /\ currentDemo' = Len(DEMOS') - 1
  /\ sourceTexture' = req.id
  /\ ShowToast("AI scene loaded!")
  /\ AiFinally
  /\ lastOp' = "ai-load resolved"
  /\ UNCHANGED << chromaKeyEnabled, aiPromptIndex, meshMaterial, sourceCanvas, gpu,
                  rafPending, cameraVars, frag >>

\* A catch block that falls back to the first routine.
AiLoadFailedResets(req, how) ==
  /\ req \in aiPending
  /\ aiPending' = aiPending \ {req}
  /\ currentDemo' = 0
  /\ ShowToast("AI generation failed - try again")
  /\ AiFinally
  /\ lastOp' = how
  /\ UNCHANGED << chromaKeyEnabled, DEMOS, aiPromptIndex, uniforms, meshMaterial,
                  previewMap, sourceTexture, frameVars, cameraVars, frag >>

\* The catch block: the loader rejected, or drawing the loaded image on the
\* new canvas threw (before anything was installed).
AiLoadFailed(req, how) ==
  /\ req \in aiPending
  /\ aiPending' = aiPending \ {req}
  /\ ShowToast("AI generation failed - try again")
  /\ AiFinally
  /\ lastOp' = how
  /\ UNCHANGED << chromaKeyEnabled, currentDemo, DEMOS, aiPromptIndex, uniforms,
                  meshMaterial, previewMap, sourceTexture, frameVars, cameraVars, frag >>

\* ------------------------------------------------- chromaKeyFragmentShader
\* Fixed point: colour channels in tenths, (U, V) and distances in 1/10000,
\* uniforms, masks and alpha in thousandths.

\* floor(sqrt(n)), by bisection
RECURSIVE SqrtBetween(_, _, _)
SqrtBetween(n, lo, hi) ==
  IF lo >= hi THEN lo
  ELSE LET mid == (lo + hi + 1) \div 2
       IN IF mid * mid <= n THEN SqrtBetween(n, mid, hi) ELSE SqrtBetween(n, lo, mid - 1)

Sqrt(n) == SqrtBetween(n, 0, IF n < 46340 THEN n ELSE 46340)

\* vec2 RGBtoUV(vec3 rgb)
RGBtoUV(rgb) ==
  << rgb[1] * (-169) + rgb[2] * (-331) + rgb[3] * 500 + 5000,
     rgb[1] * 500 + rgb[2] * (-419) + rgb[3] * (-81) + 5000 >>

\* distance(a, b)
Distance(a, b) ==
  Sqrt((a[1] - b[1]) * (a[1] - b[1]) + (a[2] - b[2]) * (a[2] - b[2]))

\* clamp(x, lo, hi)
Clamp(x, lo, hi) == IF x < lo THEN lo ELSE IF x > hi THEN hi ELSE x

\* pow(x, 1.5) for x in [0, 1], in thousandths: x * sqrt(x)
Pow15(x) == (x * Sqrt(x * 1000)) \div 1000

\* float chromaDist
ChromaDist(px, key) == Distance(RGBtoUV(px), RGBtoUV(key))

\* The mask with its operands swapped.
BaseMaskSwapped(px, key, similarity) == 10 * similarity - ChromaDist(px, key)

\* float baseMask
BaseMask(px, key, similarity) == ChromaDist(px, key) - 10 * similarity

\* The falloff curve turned upside down.
FalloffInverted(baseMask, divisor) ==
  IF divisor = 0 THEN {0, 1000}
  ELSE {Pow15(1000 - Clamp((baseMask * 100) \div divisor, 0, 1000))}

\* pow(clamp(baseMask / divisor, 0.0, 1.0), 1.5): the values it can take. A
\* division by zero has no defined result in GLSL: either end of the clamp.
Falloff(baseMask, divisor) ==
  IF divisor = 0 THEN {0, 1000}
  ELSE {Pow15(Clamp((baseMask * 100) \div divisor, 0, 1000))}

\* float desat, in thousandths
Desat(px) == Clamp((px[1] * 2126 + px[2] * 7152 + px[3] * 722) \div 100, 0, 1000)

\* mix(vec3(desat), rgba.rgb, spillVal), channels in thousandths
Mix(desat, px, spillVal) ==
  [c \in 1 .. 3 |-> (desat * (1000 - spillVal) + 100 * px[c] * spillVal) \div 1000]

\* main(): the fragments it can write for a sampled colour and the uniforms.
Fragments(px, key, similarity, smoothness, spill) ==
  { [px |-> px, key |-> key, similarity |-> similarity, smoothness |-> smoothness,
     spill |-> spill, rgb |-> Mix(Desat(px), px, spillVal), alpha |-> fullMask] :
      fullMask \in Falloff(BaseMask(px, key, similarity), smoothness),
      spillVal \in Falloff(BaseMask(px, key, similarity), spill) }

\* The sampled colours, key colours and tunables the classifier is run on.
Channels == {(10 * i) \div ColourSteps : i \in 0 .. ColourSteps}

Colours == Channels \X Channels \X Channels

Similarities == {0, 300, 400}

Smoothnesses == {0, 80, 100}

Spills == {150}

ShaderInputs ==
  { [NoFragment EXCEPT !.px = px, !.key = key, !.similarity = si, !.smoothness = sm,
                       !.spill = sp] :
      px \in Colours, key \in Colours, si \in Similarities, sm \in Smoothnesses,
      sp \in Spills }

\* The fragment shader runs on the inputs held in frag.
Shade ==
  /\ frag.alpha = -1
  /\ frag' \in Fragments(frag.px, frag.key, frag.similarity, frag.smoothness, frag.spill)
  /\ UNCHANGED << sourceVars, frameVars, cameraVars, toast, lastOp >>

\* ------------------------------------------------------------- the tick
\* How one run of animate() can end.
TickOutcomes == {"ok", "draw threw", "render threw"}

\* A tick that asks for the next frame as its last statement.
NextFrameQueuedLast(outcome) == outcome = "ok"

\* animate() calls requestAnimationFrame(animate) before any other work, so
\* the next callback is queued however the rest of the body ends.
NextFrameQueued(outcome) == TRUE

\* renderer.render: a texture in use whose needsUpdate is set is uploaded from
\* its canvas and the flag is cleared.
TexturesInUse == {BillboardTexture, previewMap}

\* animate()
Tick(outcome) ==
  /\ rafPending
  /\ rafPending' = NextFrameQueued(outcome)
  /\ LET drawn == outcome # "draw threw" /\ currentDemo + 1 \in DOMAIN DEMOS
         rendered == drawn /\ outcome = "ok"
         canvas == IF drawn THEN Painted(DEMOS[currentDemo + 1]) ELSE sourceCanvas
         flagged == IF drawn THEN [needsUpdate EXCEPT ![sourceTexture] = TRUE]
                    ELSE needsUpdate
         pixels(t) == IF t = 0 THEN canvas ELSE AiPicture(t)
     IN /\ sourceCanvas' = canvas
        /\ gpu' = [t \in Textures |->
                     IF rendered /\ t \in TexturesInUse /\ flagged[t] THEN pixels(t)
                     ELSE gpu[t]]
        /\ needsUpdate' = [t \in Textures |->
                     IF rendered /\ t \in TexturesInUse THEN FALSE ELSE flagged[t]]
        /\ lastOp' = IF drawn /\ ~rendered THEN "tick: render threw"
                     ELSE IF ~drawn THEN "tick: draw threw" ELSE "tick"
  /\ UNCHANGED << sourceVars, cameraVars, toast, frag >>

\* ------------------------------------------------------------ the camera
\* 'ar-camera' onclick, button active: the stop branch.
ArStop ==
  /\ btnActive
  /\ liveStreams' = liveStreams \ {arStream}
  /\ arStream' = 0
  /\ arVideos' = IF arVideos = << >> THEN arVideos ELSE Tail(arVideos)
  /\ clearColor' = [color |-> AR_OFF_CLEAR_COLOR, alpha |-> 1]
  /\ gridVisible' = TRUE
  /\ btnActive' = FALSE
  /\ ShowToast("AR mode off")
  /\ lastOp' = "ar-camera stop"
  /\ UNCHANGED << sourceVars, frameVars, arPending, arStarts, frag >>

\* 'ar-camera' onclick, button not active: the start branch up to the await
\* of getUserMedia.
ArStart ==
  /\ ~btnActive
  /\ arStarts < MaxArStarts
  /\ arStarts' = arStarts + 1
  /\ arPending' = arPending \cup {[id |-> arStarts + 1, pc |-> "getUserMedia"]}
  /\ lastOp' = "ar-camera start"
  /\ UNCHANGED << sourceVars, frameVars, btnActive, arStream, liveStreams, arVideos,
                  clearColor, gridVisible, toast, frag >>

\* getUserMedia resolved with a stream (named after the call that obtained
\* it): the handler runs on to the await of vid.play().
GetUserMediaResolved(task) ==
  /\ task \in arPending
  /\ task.pc = "getUserMedia"
  /\ liveStreams' = liveStreams \cup {task.id}
  /\ arStream' = task.id
  /\ arVideos' = << task.id >> \o arVideos
  /\ arPending' = (arPending \ {task}) \cup {[task EXCEPT !.pc = "play"]}
  /\ lastOp' = "getUserMedia resolved"
  /\ UNCHANGED << sourceVars, frameVars, btnActive, clearColor, gridVisible, arStarts,
                  toast, frag >>

\* vid.play() resolved: camera mode is switched on.
PlayResolved(task) ==
  /\ task \in arPending
  /\ task.pc = "play"
  /\ clearColor' = [color |-> 0, alpha |-> 0]
  /\ gridVisible' = FALSE
  /\ btnActive' = TRUE
  /\ ShowToast("AR Camera active")
  /\ arPending' = arPending \ {task}
  /\ lastOp' = "play resolved"
  /\ UNCHANGED << sourceVars, frameVars, arStream, liveStreams, arVideos, arStarts, frag >>

\* The catch block of the start branch: getUserMedia or vid.play() rejected.
ArStartFailed(task) ==
  /\ task \in arPending
  /\ ShowToast("Camera access denied")
  /\ arPending' = arPending \ {task}
  /\ lastOp' = task.pc \o " rejected"
  /\ UNCHANGED << sourceVars, frameVars, btnActive, arStream, liveStreams, arVideos,
                  clearColor, gridVisible, arStarts, frag >>

\* ------------------------------------------------------ the specification
\* The source handlers, the sliders and the camera handler write disjoint
\* state (only the toast is shared), so each group is explored on its own
\* specification, together with the handlers its properties mention.

\* The handlers that select and install the source, and the tick.
SourceNext ==
  \/ ToggleChroma
  \/ NextDemo
  \/ \E input \in PromptInputs : AiGenerateClick(input)
  \/ \E req \in aiPending : AiLoadResolved(req)
  \/ \E req \in aiPending : AiLoadFailed(req, "ai-load rejected")
  \/ \E req \in aiPending : AiLoadFailed(req, "ai-load threw")
  \/ \E outcome \in TickOutcomes : Tick(outcome)

\* The sliders.
ParamNext ==
  \/ \E value \in SliderInputs : SimilarityInput(value)
  \/ \E value \in SliderInputs : SmoothnessInput(value)

\* The 'ar-camera' button and the promises its handler awaits.
CameraNext ==
  \/ ArStop
  \/ ArStart
  \/ \E task \in arPending : GetUserMediaResolved(task)
  \/ \E task \in arPending : PlayResolved(task)
  \/ \E task \in arPending : ArStartFailed(task)

Spec == Init /\ [][SourceNext]_vars

\* The source handlers a slider input can interleave with.
ParamSourceNext ==
  \/ ToggleChroma
  \/ NextDemo
  \/ \E input \in PromptInputs : AiGenerateClick(input)
  \/ \E req \in aiPending : AiLoadResolved(req)
  \/ \E req \in aiPending : AiLoadFailed(req, "ai-load rejected")
  \/ Tick("ok")

ParamSpec == Init /\ [][ParamSourceNext \/ ParamNext]_vars

CameraSpec == Init /\ [][CameraNext \/ NextDemo \/ Tick("ok")]_vars

\* The classifier alone, over sampled colours, key colours and tunables.
ShaderInit == AppInit /\ frag \in ShaderInputs

ShaderSpec == ShaderInit /\ [][Shade]_vars

\* ================================================================ claims
SourceState == << uniforms.tex, previewMap, sourceTexture, DEMOS, currentDemo >>

KeyParameters ==
  [keyColor |-> uniforms.keyColor, similarity |-> uniforms.similarity,
   smoothness |-> uniforms.smoothness, spill |-> uniforms.spill]

SliderValues == {ParseFloat(value) : value \in SliderInputs}

\* C1: at most one image request is in flight at any time, and an 'AI
\* Generate' click made while a request is in flight issues no request and
\* changes no state of the program.
C1_OneRequestInFlight ==
  [][ /\ Cardinality(aiPending') <= 1
      /\ (aiPending # {} /\ lastOp' \in {"ai-generate", "ai-generate ignored"})
            => UNCHANGED << sourceVars, frameVars, cameraVars, toast >> ]_vars

C1_Witness ==
  /\ lastOp = "ai-generate ignored"
  /\ Cardinality(aiPending) = 1
  /\ aiPromptIndex = 1

\* C2: when the loader rejects, the texture bound to the billboard shader,
\* the preview texture, sourceTexture, DEMOS and currentDemo are left as they
\* were, and the billboard goes on showing the same texture with the same
\* pixels.
C2_FailedLoadKeepsSource ==
  [][ lastOp' = "ai-load rejected"
        => /\ SourceState' = SourceState
           /\ BillboardTexture' = BillboardTexture
           /\ Displayed' = Displayed ]_vars

C2_Witness ==
  /\ lastOp = "ai-load rejected"
  /\ uniforms.tex = 1
  /\ currentDemo = 0
  /\ aiPromptIndex = 2

\* C3: once a stop has run, every media stream the app obtained has had its
\* tracks stopped.
C3_StopReleasesEveryStream == lastOp = "ar-camera stop" => liveStreams = {}

\* C4: 'next demo' changes the selected index, and at the tick that follows
\* the billboard shows what the newly selected routine paints.
C4_NextDemoShownAtNextTick ==
  [][ /\ lastOp' = "next-demo" => currentDemo' # currentDemo
      /\ (lastOp = "next-demo" /\ lastOp' = "tick")
            => (Displayed = Painted(DEMOS[currentDemo + 1]))' ]_vars

\* C5: in every state a tick can run in, the billboard's texture, the
\* preview's texture and sourceTexture are one and the same texture.
C5_OneSourceEverywhere ==
  /\ BillboardTexture = previewMap
  /\ previewMap = sourceTexture

\* C6: when the only camera start under way fails, at getUserMedia or at
\* play(), camera mode stays off, window._arStream is null, no 'ar-video'
\* element is in the document, clear colour and grid are untouched and the
\* notice is shown.
C6_FailedStartLeavesNothing ==
  [][ (Cardinality(arPending) = 1 /\ arPending' = {} /\ ~btnActive
         /\ lastOp' \in {"getUserMedia rejected", "play rejected"})
        => /\ ~btnActive'
           /\ arStream' = 0
           /\ arVideos' = << >>
           /\ UNCHANGED << clearColor, gridVisible >>
           /\ toast' = "Camera access denied" ]_vars

\* C7: after the stop branch has run no getUserMedia or play() call is still
\* unresolved, and the billboard shows what it showed before.
C7_StopLeavesNothingPending ==
  [][ lastOp' = "ar-camera stop"
        => /\ arPending' = {}
           /\ Displayed' = Displayed ]_vars

C9_TickLoopSurvivesErrors == rafPending

C9_Witness ==
  /\ lastOp = "tick: draw threw"
  /\ currentDemo = 3
  /\ rafPending

\* C10: for a sampled colour equal to the key colour, similarity > 0 and
\* smoothness > 0: chromaDist = 0, baseMask = -similarity < 0 and alpha = 0.
C10_KeyColourIsTransparent ==
  (frag.alpha # -1 /\ frag.px = frag.key /\ frag.similarity > 0 /\ frag.smoothness > 0)
    => /\ ChromaDist(frag.px, frag.key) = 0
       /\ BaseMask(frag.px, frag.key, frag.similarity) = -(10 * frag.similarity)
       /\ BaseMask(frag.px, frag.key, frag.similarity) < 0
       /\ frag.alpha = 0

C10_Witness ==
  /\ frag.alpha = 0
  /\ frag.px = <<0, 10, 0>>
  /\ frag.key = <<0, 10, 0>>
  /\ frag.similarity = 400
  /\ frag.smoothness = 80

\* Chroma distances, in 1/10000, from 0 past the largest distance two colours
\* can have.
DistanceSamples == {500 * i : i \in 0 .. 30}

\* C11: for fixed similarity and smoothness > 0, alpha lies in [0, 1] and is
\* non-decreasing in chromaDist: a larger distance never gives a smaller
\* alpha than the fragment's, a smaller one never a larger alpha, whether the
\* other distance is that of another sampled colour or any sampled distance.
C11_AlphaMonotone ==
  (frag.alpha # -1 /\ frag.smoothness > 0)
    => LET d1 == ChromaDist(frag.px, frag.key)
       IN /\ frag.alpha \in 0 .. 1000
          /\ \A d2 \in DistanceSamples :
               \A a \in Falloff(d2 - 10 * frag.similarity, frag.smoothness) :
                 /\ a \in 0 .. 1000
                 /\ d1 <= d2 => frag.alpha <= a
                 /\ d2 <= d1 => a <= frag.alpha
          /\ \A px2 \in Colours :
               \A a \in Falloff(BaseMask(px2, frag.key, frag.similarity),
                                frag.smoothness) :
                 /\ d1 <= ChromaDist(px2, frag.key) => frag.alpha <= a
                 /\ ChromaDist(px2, frag.key) <= d1 => a <= frag.alpha

\* A fragment on the slope of the curve, with more transparent and more
\* opaque colours on either side of it.
C11_Witness ==
  /\ frag.alpha > 0
  /\ frag.alpha < 1000
  /\ frag.smoothness > 0
  /\ \E px2 \in Colours :
       \E a \in Falloff(BaseMask(px2, frag.key, frag.similarity), frag.smoothness) :
         a > frag.alpha
  /\ \E px2 \in Colours :
       \E a \in Falloff(BaseMask(px2, frag.key, frag.similarity), frag.smoothness) :
         a < frag.alpha

ValidDemoIndex == currentDemo \in 0 .. Len(DEMOS) - 1

\* C12: in every state currentDemo is an index of DEMOS, so a tick always
\* finds a routine to call, and DEMOS only grows: every step keeps the
\* entries it had, in place.
C12_CurrentDemoIsValid ==
  [][ /\ ValidDemoIndex
      /\ ValidDemoIndex'
      /\ Len(DEMOS') >= Len(DEMOS)
      /\ SubSeq(DEMOS', 1, Len(DEMOS)) = DEMOS ]_vars

C12_Witness ==
  /\ lastOp = "next-demo"
  /\ Len(DEMOS) = Len(BuiltinDemos) + 1
  /\ currentDemo = 0
  /\ toast = "AI generation failed - try again"

CompletionOps == {"ai-load resolved", "ai-load rejected", "ai-load threw"}

\* C13: aiImageLoading is set exactly while an image request is outstanding;
\* every completion (loaded, rejected, or thrown after loading) clears it;
\* and a click made with no request outstanding is accepted and issues one.
C13_LoadingFlagTracksRequest ==
  [][ /\ aiImageLoading <=> aiPending # {}
      /\ aiImageLoading' <=> aiPending' # {}
      /\ lastOp' \in CompletionOps => ~aiImageLoading'
      /\ (aiPending = {} /\ lastOp' \in {"ai-generate", "ai-generate ignored"})
            => /\ lastOp' = "ai-generate"
               /\ Cardinality(aiPending') = 1
               /\ aiPromptIndex' = aiPromptIndex + 1 ]_vars

\* A click accepted after an earlier request failed.
C13_Witness ==
  /\ lastOp = "ai-generate"
  /\ aiPromptIndex = 2
  /\ aiImageLoading
  /\ toast = "AI generation failed - try again"
  /\ Len(DEMOS) = Len(BuiltinDemos)

====
